---- MODULE Spec2Model ----
(***************************************************************************)
(* Brown Thomas manual transfer file processor (src/app.py).               *)
(*                                                                         *)
(* One run of the "Process File" handler: the selected template sheet is   *)
(* read, the selected source sheets are concatenated, the key columns are  *)
(* searched, the source is deduplicated and indexed by key, every template *)
(* row is looked up and filled through column_mapping, and the template    *)
(* frame is written to the output workbook.                                *)
(*                                                                         *)
(* Text is a sequence of one-character strings, so that upper(), lower(),  *)
(* the substring test and float() are computed character by character.     *)
(* A cell is a tagged scalar: empty (NaN), integer, float or text.  Column *)
(* dtypes are not modelled: numeric cells are compared by numeric value,   *)
(* which is how Python compares 555 and 555.0.                             *)
(***************************************************************************)
EXTENDS Integers, Sequences, FiniteSets, TLC

VARIABLES pc, template_sheet, source_sheets, template_df, source_dfs,
          combined_source, ppid_col_template, ppid_col_source,
          source_lookup, idx, processed_count, not_found_count,
          output, error

vars == <<pc, template_sheet, source_sheets, template_df, source_dfs,
          combined_source, ppid_col_template, ppid_col_source,
          source_lookup, idx, processed_count, not_found_count,
          output, error>>

(***************************************************************************)
(* Text                                                                    *)
(***************************************************************************)
LowerLetters == <<"a","b","c","d","e","f","g","h","i","j","k","l","m","n","o","p","q","r","s","t","u","v","w","x","y","z">>

UpperLetters == <<"A","B","C","D","E","F","G","H","I","J","K","L","M","N","O","P","Q","R","S","T","U","V","W","X","Y","Z">>

DigitChars == <<"0","1","2","3","4","5","6","7","8","9">>

Whitespace == {" ", "\n", "\r", "\t"}

\* the upper-case form of every lower-case letter, and the converse
UpperOf ==
    [c \in {LowerLetters[i] : i \in 1..26} |->
        UpperLetters[CHOOSE i \in 1..26 : LowerLetters[i] = c]]

LowerOf ==
    [c \in {UpperLetters[i] : i \in 1..26} |->
        LowerLetters[CHOOSE i \in 1..26 : UpperLetters[i] = c]]

CharUpper(c) == IF c \in DOMAIN UpperOf THEN UpperOf[c] ELSE c

CharLower(c) == IF c \in DOMAIN LowerOf THEN LowerOf[c] ELSE c

\* str.upper()
Upper(s) == [i \in 1..Len(s) |-> CharUpper(s[i])]

\* str.lower()
Lower(s) == [i \in 1..Len(s) |-> CharLower(s[i])]

\* sub in s
Contains(s, sub) ==
    \E i \in 1..(Len(s) - Len(sub) + 1) : SubSeq(s, i, i + Len(sub) - 1) = sub

\* str.strip(), as float() applies it to its argument
Strip(s) ==
    IF \A i \in 1..Len(s) : s[i] \in Whitespace
    THEN <<>>
    ELSE LET a == CHOOSE i \in 1..Len(s) :
                      /\ s[i] \notin Whitespace
                      /\ \A j \in 1..(i - 1) : s[j] \in Whitespace
             b == CHOOSE i \in 1..Len(s) :
                      /\ s[i] \notin Whitespace
                      /\ \A j \in (i + 1)..Len(s) : s[j] \in Whitespace
         IN  SubSeq(s, a, b)

IsDigit(c) == \E i \in 1..10 : DigitChars[i] = c

DigitVal(c) == (CHOOSE i \in 1..10 : DigitChars[i] = c) - 1

AllDigits(s) == \A i \in 1..Len(s) : IsDigit(s[i])

RECURSIVE DigitsValue(_)
DigitsValue(s) ==
    IF s = <<>> THEN 0
    ELSE 10 * DigitsValue(SubSeq(s, 1, Len(s) - 1)) + DigitVal(s[Len(s)])

RECURSIVE StripTrailingZeros(_)
StripTrailingZeros(ds) ==
    IF ds # <<>> /\ ds[Len(ds)] = 0
    THEN StripTrailingZeros(SubSeq(ds, 1, Len(ds) - 1))
    ELSE ds

(***************************************************************************)
(* Cell values                                                             *)
(***************************************************************************)
\* an empty cell: pandas reads it as NaN
NaN == [t |-> "nan", sg |-> 1, n |-> 0, f |-> <<>>, s |-> <<>>]

\* a Python int
IntVal(sg, n) ==
    [t |-> "int", sg |-> IF n = 0 THEN 1 ELSE sg, n |-> n, f |-> <<>>, s |-> <<>>]

\* a finite Python float sg * (n + 0.f); f holds the fraction's decimal digits
FloatVal(sg, n, f) ==
    [t |-> "float", sg |-> IF n = 0 /\ StripTrailingZeros(f) = <<>> THEN 1 ELSE sg,
     n |-> n, f |-> StripTrailingZeros(f), s |-> <<>>]

\* a Python str
StrVal(s) == [t |-> "str", sg |-> 1, n |-> 0, f |-> <<>>, s |-> s]

\* pd.isna(value) for a scalar
IsNa(v) == v.t = "nan"

IsNumber(v) == v.t \in {"int", "float"}

\* a == b together with equal hashes, NaN taken as equal to NaN: the equality
\* of pandas' hash tables, used by drop_duplicates and by Index lookups
\* (1 == 1.0 is True, "1" == 1 is False)
KeyEq(a, b) ==
    \/ IsNa(a) /\ IsNa(b)
    \/ a.t = "str" /\ b.t = "str" /\ a.s = b.s
    \/ IsNumber(a) /\ IsNumber(b) /\ a.sg = b.sg /\ a.n = b.n /\ a.f = b.f

(***************************************************************************)
(* float(value) and int(float(value))                                      *)
(* The decimal part of float()'s grammar: optional surrounding whitespace, *)
(* an optional sign, then inf / infinity / nan in any case, or digits with *)
(* an optional fraction.  Exponents and digit-group underscores are not    *)
(* covered; no sampled text uses them.                                     *)
(***************************************************************************)
InfWords == { <<"i","n","f">>, <<"i","n","f","i","n","i","t","y">> }

NanWord == <<"n","a","n">>

DotPositions(s) == {i \in 1..Len(s) : s[i] = "."}

ParseUnsigned(sg, body) ==
    LET dots == DotPositions(body) IN
    IF Lower(body) \in InfWords THEN [k |-> "inf", sg |-> sg, n |-> 0, f |-> <<>>]
    ELSE IF Lower(body) = NanWord THEN [k |-> "nan", sg |-> sg, n |-> 0, f |-> <<>>]
    ELSE IF dots = {} /\ body # <<>> /\ AllDigits(body)
         THEN [k |-> "num", sg |-> sg, n |-> DigitsValue(body), f |-> <<>>]
    ELSE IF Cardinality(dots) = 1
         THEN LET d  == CHOOSE i \in dots : TRUE
                  ip == SubSeq(body, 1, d - 1)
                  fp == SubSeq(body, d + 1, Len(body))
              IN  IF AllDigits(ip) /\ AllDigits(fp) /\ Len(ip) + Len(fp) > 0
                  THEN [k |-> "num", sg |-> sg, n |-> DigitsValue(ip),
                        f |-> StripTrailingZeros([i \in 1..Len(fp) |-> DigitVal(fp[i])])]
                  ELSE [k |-> "err", sg |-> sg, n |-> 0, f |-> <<>>]
    ELSE [k |-> "err", sg |-> sg, n |-> 0, f |-> <<>>]

\* float(s) for a str s: k = "num" | "inf" | "nan", or "err" for ValueError
ParseFloat(s) ==
    LET t == Strip(s) IN
    IF t # <<>> /\ t[1] = "-" THEN ParseUnsigned(-1, Tail(t))
    ELSE IF t # <<>> /\ t[1] = "+" THEN ParseUnsigned(1, Tail(t))
    ELSE ParseUnsigned(1, t)

\* float(value) for a cell value that is not NaN
ToFloat(v) ==
    IF v.t = "str" THEN ParseFloat(v.s)
    ELSE [k |-> "num", sg |-> v.sg, n |-> v.n, f |-> v.f]

\* try: value = int(float(value)) / except (ValueError, TypeError): pass
\* raised: OverflowError (int of an infinity), which the except clause lets through
IntOfFloat(v) ==
    LET x == ToFloat(v) IN
    IF x.k = "num" THEN [raised |-> FALSE, value |-> IntVal(x.sg, x.n)]
    ELSE IF x.k = "inf" THEN [raised |-> TRUE, value |-> v]
    ELSE [raised |-> FALSE, value |-> v]

(***************************************************************************)
(* Frames                                                                  *)
(* A DataFrame is its column labels and its rows, each row a sequence of   *)
(* cells aligned with the labels.  read_excel gives every column a         *)
(* distinct, non-empty label.                                              *)
(***************************************************************************)
\* Python's None for a column name that was not found
None == <<>>

EmptyFrame == [columns |-> <<>>, rows |-> <<>>]

HasCol(cols, c) == \E j \in 1..Len(cols) : cols[j] = c

ColPos(cols, c) == CHOOSE j \in 1..Len(cols) : cols[j] = c

\* df.at[r, c] read
Cell(df, r, c) == df.rows[r][ColPos(df.columns, c)]

\* the columns of pd.concat: the union of the labels, in order of appearance
RECURSIVE UnionColumns(_)
UnionColumns(dfs) ==
    IF dfs = <<>> THEN <<>>
    ELSE LET before == UnionColumns(SubSeq(dfs, 1, Len(dfs) - 1))
             last   == dfs[Len(dfs)].columns
             IsNew(c) == ~HasCol(before, c)
         IN  before \o SelectSeq(last, IsNew)

\* a frame's rows on the columns cols; a column the frame lacks reads NaN
Reindex(df, cols) ==
    [r \in 1..Len(df.rows) |->
        [j \in 1..Len(cols) |->
            IF HasCol(df.columns, cols[j]) THEN Cell(df, r, cols[j]) ELSE NaN]]

RECURSIVE ConcatRows(_, _)
ConcatRows(dfs, cols) ==
    IF dfs = <<>> THEN <<>>
    ELSE ConcatRows(SubSeq(dfs, 1, Len(dfs) - 1), cols) \o Reindex(dfs[Len(dfs)], cols)

\* pd.concat(source_dfs, ignore_index=True), for a non-empty list
Concat(dfs) ==
    [columns |-> UnionColumns(dfs), rows |-> ConcatRows(dfs, UnionColumns(dfs))]

\* 'PPID' in col.upper()
IsTemplateKeyColumn(col) == Contains(Upper(col), <<"P","P","I","D">>)

\* 'pim parent id' in col.lower()
IsSourceKeyColumn(col) ==
    Contains(Lower(col), <<"p","i","m"," ","p","a","r","e","n","t"," ","i","d">>)

\* for col in columns: if <test>: found = col; break -- hits are the
\* positions of the columns that pass the test
FirstColumn(cols, hits) ==
    IF hits # {}
    THEN cols[CHOOSE j \in hits : \A k \in hits : j <= k]
    ELSE None

FindTemplateKeyColumn(df) ==
    FirstColumn(df.columns,
                {j \in 1..Len(df.columns) : IsTemplateKeyColumn(df.columns[j])})

FindSourceKeyColumn(df) ==
    FirstColumn(df.columns,
                {j \in 1..Len(df.columns) : IsSourceKeyColumn(df.columns[j])})

\* KeepRow with keep='last' in place of keep='first'; C2_FirstWins tells the two apart
KeepRowLast(keys, r) == \A q \in (r + 1)..Len(keys) : ~KeyEq(keys[q], keys[r])

\* keep='first': a row stays when no earlier row has an equal key
KeepRow(keys, r) == \A q \in 1..(r - 1) : ~KeyEq(keys[q], keys[r])

RECURSIVE KeptRows(_, _, _)
KeptRows(rows, keys, r) ==
    IF r = 0 THEN <<>>
    ELSE KeptRows(rows, keys, r - 1)
             \o (IF KeepRow(keys, r) THEN <<rows[r]>> ELSE <<>>)

\* combined_source.drop_duplicates(subset=[col], keep='first')
DropDuplicates(df, col) ==
    LET keys == [r \in 1..Len(df.rows) |-> Cell(df, r, col)]
    IN  [columns |-> df.columns, rows |-> KeptRows(df.rows, keys, Len(df.rows))]

Without(seq, p) == SubSeq(seq, 1, p - 1) \o SubSeq(seq, p + 1, Len(seq))

\* df.set_index(col): the key column becomes the index and leaves the columns
SetIndex(df, col) ==
    LET p == ColPos(df.columns, col) IN
    [index   |-> [r \in 1..Len(df.rows) |-> df.rows[r][p]],
     columns |-> Without(df.columns, p),
     rows    |-> [r \in 1..Len(df.rows) |-> Without(df.rows[r], p)]]

EmptyLookup == [index |-> <<>>, columns |-> <<>>, rows |-> <<>>]

\* ppid in source_lookup.index
InIndex(lookup, ppid) == \E r \in 1..Len(lookup.index) : KeyEq(lookup.index[r], ppid)

\* source_lookup.loc[ppid], a row position: the index is unique after drop_duplicates
Loc(lookup, ppid) == CHOOSE r \in 1..Len(lookup.index) : KeyEq(lookup.index[r], ppid)

(***************************************************************************)
(* column_mapping and the mapping loop                                     *)
(***************************************************************************)
column_mapping ==
    <<
       <<<<"S","K","U">>,
         <<"R","e","t","e","k"," ","I","D">>>>,
       <<<<"B","A","R","C","O","D","E">>,
         <<"B","a","r","c","o","d","e">>>>,
       <<<<"D","E","S","C","R","I","P","T","I","O","N">>,
         <<"R","e","t","e","k"," ","I","t","e","m"," ","D","e","s","c","r","i","p","t","i","o","n">>>>,
       <<<<"C","O","L","O","U","R">>,
         <<"D","i","f","f"," ","1"," ","D","e","s","c","r","i","p","t","i","o","n">>>>,
       <<<<"S","I","Z","E">>,
         <<"U","K"," ","S","i","z","e"," ","C","o","n","c","a","t">>>>,
       <<<<"P","R","O","D","U","C","T"," ","T","Y","P","E">>,
         <<"P","r","o","d","u","c","t"," ","T","y","p","e"," ","U","D","A">>>>,
       <<<<"D","I","V","I","S","I","O","N">>,
         <<"D","i","v","i","s","i","o","n"," ","N","a","m","e">>>>,
       <<<<"B","R","A","N","D">>,
         <<"B","r","a","n","d">>>>,
       <<<<"D","E","P","A","R","T","M","E","N","T">>,
         <<"D","e","p","a","r","t","m","e","n","t"," ","N","a","m","e">>>>,
       <<<<"D","E","P","A","R","T","M","E","N","T"," ","N","U","M","B","E","R">>,
         <<"D","e","p","a","r","t","m","e","n","t"," ","N","u","m","b","e","r">>>>,
       <<<<"D","I","V","I","S","I","O","N"," ","N","U","M","B","E","R">>,
         <<"D","i","v","i","s","i","o","n"," ","N","u","m","b","e","r">>>>,
       <<<<"S","T","O","R","E"," ","3","0","1"," ","A","L","L","O","C","A","T","I","O","N">>,
         <<"S","t","o","r","e"," ","3","0","1"," ","A","l","l","o","c","a","t","i","o","n">>>>,
       <<<<"S","T","O","R","E"," ","4","0","1"," ","A","L","L","O","C","A","T","I","O","N">>,
         <<"S","t","o","r","e"," ","4","0","1"," ","A","l","l","o","c","a","t","i","o","n">>>>,
       <<<<"I","T","E","M"," ","S","T","O","R","E"," ","F","L","A","G">>,
         <<"I","t","e","m"," ","S","t","o","r","e"," ","F","l","a","g">>>>,
       <<<<"V","P","N"," ","P","A","R","E","N","T">>,
         <<"V","P","N"," ","P","a","r","e","n","t">>>>
    >>

Barcode == <<"B","A","R","C","O","D","E">>

\* col.upper() == template_col.upper()
MatchesTemplateCol(col, template_col) == Upper(col) = Upper(template_col)

\* col.lower() == source_col.lower()
MatchesSourceCol(col, source_col) == Lower(col) = Lower(source_col)

TemplateColActual(df, template_col) ==
    LET Test(col) == MatchesTemplateCol(col, template_col)
    IN  FirstColumn(df.columns, {j \in 1..Len(df.columns) : Test(df.columns[j])})

SourceColActual(lookup, source_col) ==
    LET Test(col) == MatchesSourceCol(col, source_col)
    IN  FirstColumn(lookup.columns, {j \in 1..Len(lookup.columns) : Test(lookup.columns[j])})

\* template_col.upper() == 'BARCODE' and pd.notna(value)
NeedsBarcodeHandling(template_col, value) ==
    Upper(template_col) = Barcode /\ ~IsNa(value)

\* df.at[r, col] = value, for a row and a column the frame has
SetAt(df, r, col, value) ==
    [df EXCEPT !.rows[r][ColPos(df.columns, col)] = value]

\* df.at[r, col] = value for a label the frame may lack: a new column is
\* added, empty in the other rows
SetAtEnlarging(df, r, col, value) ==
    IF HasCol(df.columns, col) THEN SetAt(df, r, col, value)
    ELSE [columns |-> Append(df.columns, col),
          rows |-> [q \in 1..Len(df.rows) |->
                       Append(df.rows[q], IF q = r THEN value ELSE NaN)]]

\* ApplyPair writing under the source label instead of the template label;
\* C1_ResultHasTemplateShape tells the two apart
ApplyPairUnderSourceLabel(df, r, lookup, m, pair) ==
    LET template_col_actual == TemplateColActual(df, pair[1])
        source_col_actual   == SourceColActual(lookup, pair[2])
    IN  IF template_col_actual # None /\ source_col_actual # None
        THEN LET value == lookup.rows[m][ColPos(lookup.columns, source_col_actual)]
                 conv  == IF NeedsBarcodeHandling(pair[1], value)
                          THEN IntOfFloat(value)
                          ELSE [raised |-> FALSE, value |-> value]
             IN  IF conv.raised
                 THEN [raised |-> TRUE, df |-> df]
                 ELSE [raised |-> FALSE,
                       df |-> SetAtEnlarging(df, r, source_col_actual, conv.value)]
        ELSE [raised |-> FALSE, df |-> df]

\* ApplyPair filling only empty destination cells; C5_MappedOverwrite tells
\* the two apart
ApplyPairFillBlanksOnly(df, r, lookup, m, pair) ==
    LET template_col_actual == TemplateColActual(df, pair[1])
        source_col_actual   == SourceColActual(lookup, pair[2])
    IN  IF /\ template_col_actual # None
           /\ source_col_actual # None
           /\ IsNa(Cell(df, r, template_col_actual))
        THEN LET value == lookup.rows[m][ColPos(lookup.columns, source_col_actual)]
                 conv  == IF NeedsBarcodeHandling(pair[1], value)
                          THEN IntOfFloat(value)
                          ELSE [raised |-> FALSE, value |-> value]
             IN  IF conv.raised
                 THEN [raised |-> TRUE, df |-> df]
                 ELSE [raised |-> FALSE,
                       df |-> SetAt(df, r, template_col_actual, conv.value)]
        ELSE [raised |-> FALSE, df |-> df]

\* one pass of the loop body over a (template_col, source_col) pair, for the
\* template row r and the matched source row m
ApplyPair(df, r, lookup, m, pair) ==
    LET template_col_actual == TemplateColActual(df, pair[1])
        source_col_actual   == SourceColActual(lookup, pair[2])
    IN  IF template_col_actual # None /\ source_col_actual # None
        THEN LET value == lookup.rows[m][ColPos(lookup.columns, source_col_actual)]
                 conv  == IF NeedsBarcodeHandling(pair[1], value)
                          THEN IntOfFloat(value)
                          ELSE [raised |-> FALSE, value |-> value]
             IN  IF conv.raised
                 THEN [raised |-> TRUE, df |-> df]
                 ELSE [raised |-> FALSE,
                       df |-> SetAt(df, r, template_col_actual, conv.value)]
        ELSE [raised |-> FALSE, df |-> df]

\* the pairs of column_mapping applied in the order given (positions in
\* column_mapping); an exception ends the loop
RECURSIVE ApplyPairs(_, _, _, _, _)
ApplyPairs(df, r, lookup, m, order) ==
    IF order = <<>> THEN [raised |-> FALSE, df |-> df]
    ELSE LET one == ApplyPair(df, r, lookup, m, column_mapping[Head(order)])
         IN  IF one.raised THEN one
             ELSE ApplyPairs(one.df, r, lookup, m, Tail(order))

\* for template_col, source_col in column_mapping.items(): insertion order
MappingOrder == [k \in 1..Len(column_mapping) |-> k]

\* SkipRow without the test for an empty key; C7_AbsentKeyPassthrough tells
\* the two apart
SkipRowNever(ppid) == FALSE

\* if pd.isna(ppid): continue
SkipRow(ppid) == IsNa(ppid)

\* ProcessTemplateRow as a merge would do it: the mapped columns of a row
\* that is not found are blanked; C6_UnmatchedPassthrough tells the two apart
ProcessTemplateRowBlanking(df, r, key_col, lookup) ==
    LET ppid == Cell(df, r, key_col)
        IsMapped(col) ==
            \E k \in 1..Len(column_mapping) : MatchesTemplateCol(col, column_mapping[k][1])
    IN
    IF SkipRow(ppid) THEN [kind |-> "skipped", df |-> df]
    ELSE IF InIndex(lookup, ppid)
         THEN LET res == ApplyPairs(df, r, lookup, Loc(lookup, ppid), MappingOrder)
              IN  IF res.raised THEN [kind |-> "raised", df |-> df]
                  ELSE [kind |-> "processed", df |-> res.df]
    ELSE [kind |-> "not_found",
          df |-> [df EXCEPT !.rows[r] =
                     [j \in 1..Len(df.columns) |->
                         IF IsMapped(df.columns[j]) THEN NaN ELSE df.rows[r][j]]]]

\* the body of the template row loop for row r
ProcessTemplateRow(df, r, key_col, lookup) ==
    LET ppid == Cell(df, r, key_col) IN
    IF SkipRow(ppid) THEN [kind |-> "skipped", df |-> df]
    ELSE IF InIndex(lookup, ppid)
         THEN LET res == ApplyPairs(df, r, lookup, Loc(lookup, ppid), MappingOrder)
              IN  IF res.raised THEN [kind |-> "raised", df |-> df]
                  ELSE [kind |-> "processed", df |-> res.df]
    ELSE [kind |-> "not_found", df |-> df]

\* template_df.to_excel(writer, index=False): the labels and the rows
ToExcel(df) == [columns |-> df.columns, rows |-> df.rows]

(***************************************************************************)
(* The uploaded workbook                                                   *)
(* Sample sheets.  A layout lists a sheet's column labels as authored,     *)
(* each with what the sheet's author keeps in it: the product key, the     *)
(* barcode, or other data.  A source data cell holds the number prj.5 for  *)
(* sheet p, row r, column j, and a template data cell the text "trj", so   *)
(* that the origin of every value in the result can be told.               *)
(***************************************************************************)
MaxTemplateRows == 2

MaxSourceRows == 2

MaxSourceSheets == 2

TemplatePlain ==
    << <<<<"P","P","I","D">>, "key">>,
       <<<<"S","K","U">>, "data">>,
       <<<<"B","A","R","C","O","D","E">>, "barcode">>,
       <<<<"B","R","A","N","D">>, "data">>,
       <<<<"N","o","t","e","s">>, "data">> >>

TemplateMixedCase ==
    << <<<<"N","o","t","e","s">>, "data">>,
       <<<<"S","k","u">>, "data">>,
       <<<<"I","t","e","m"," ","p","p","i","d">>, "key">>,
       <<<<"B","a","r","c","o","d","e">>, "barcode">> >>

TemplateNoKey ==
    << <<<<"S","K","U">>, "data">>,
       <<<<"B","A","R","C","O","D","E">>, "barcode">>,
       <<<<"N","o","t","e","s">>, "data">> >>

TemplateLayouts == {TemplatePlain, TemplateMixedCase, TemplateNoKey}

SourcePlain ==
    << <<<<"P","i","m"," ","P","a","r","e","n","t"," ","I","D">>, "key">>,
       <<<<"R","e","t","e","k"," ","I","D">>, "data">>,
       <<<<"B","a","r","c","o","d","e">>, "barcode">> >>

SourceUpperCase ==
    << <<<<"P","I","M"," ","P","A","R","E","N","T"," ","I","D">>, "key">>,
       <<<<"R","E","T","E","K"," ","I","D">>, "data">>,
       <<<<"B","A","R","C","O","D","E">>, "barcode">>,
       <<<<"S","e","a","s","o","n">>, "data">> >>

SourceWrappedHeader ==
    << <<<<"P","i","m","\n","P","a","r","e","n","t"," ","I","D">>, "key">>,
       <<<<"R","e","t","e","k"," ","I","D">>, "data">>,
       <<<<"B","a","r","c","o","d","e">>, "barcode">> >>

SourceNoKey ==
    << <<<<"R","e","t","e","k"," ","I","D">>, "data">>,
       <<<<"B","r","a","n","d">>, "data">> >>

SourceLayouts == {SourcePlain, SourceUpperCase, SourceWrappedHeader, SourceNoKey}

Key100Text == StrVal(<<"1","0","0">>)

KeyA17 == StrVal(<<"A","1","7">>)

\* the key 100 as an integer, as a float and as text, a key that is no
\* number, and no key
KeySamples == {NaN, IntVal(1, 100), FloatVal(1, 100, <<0>>), Key100Text, KeyA17}

BC555 == <<"5","5","5",".","0">>

BC1234567890 == <<"1","2","3","4","5","6","7","8","9","0",".","0">>

BCABC123 == <<"A","B","C","1","2","3">>

BC0555 == <<"0","5","5","5">>

BC5555 == <<"5","5","5",".","5">>

BCPadded == <<" ","4","2"," ">>

BCInf == <<"i","n","f">>

BCNegative == <<"-","7",".","9">>

BarcodeSamples ==
    { StrVal(BC555),
      StrVal(BC1234567890),
      StrVal(BCABC123),
      StrVal(BC0555),
      StrVal(BC5555),
      StrVal(BCPadded),
      StrVal(BCInf),
      StrVal(BCNegative),
      IntVal(1, 555),
      FloatVal(1, 777, <<0>>),
      FloatVal(1, 12, <<5>>),
      NaN }

\* the sequences over S of a length from lo to hi
SeqsOf(S, lo, hi) == UNION {[1..n -> S] : n \in lo..hi}

Labels(layout) == [j \in 1..Len(layout) |-> layout[j][1]]

\* a template sheet of the layout, with the given keys in its key column
MkTemplate(layout, keys) ==
    [columns |-> Labels(layout),
     rows |-> [r \in 1..Len(keys) |->
                 [j \in 1..Len(layout) |->
                     IF layout[j][2] = "key" THEN keys[r]
                     ELSE StrVal(<<"t", DigitChars[r + 1], DigitChars[j + 1]>>)]]]

\* the barcode of row r of the source sheet at position pos when none is
\* chosen: the float 9pr.0
DefaultBarcode(pos, r) == FloatVal(1, 900 + 10 * pos + r, <<0>>)

\* the source sheet at position pos of the selection; its data cells hold
\* the float prj.5
MkSheet(pos, sheet) ==
    [columns |-> Labels(sheet.layout),
     rows |-> [r \in 1..Len(sheet.keys) |->
                 [j \in 1..Len(sheet.layout) |->
                     CASE sheet.layout[j][2] = "key" -> sheet.keys[r]
                       [] sheet.layout[j][2] = "barcode" ->
                             IF sheet.barcodes = <<>> THEN DefaultBarcode(pos, r)
                             ELSE sheet.barcodes[r]
                       [] OTHER -> FloatVal(1, 100 * pos + 10 * r + j, <<5>>)]]]

\* pd.read_excel infers a column's type: a column whose cells all read as
\* numbers comes out numeric.  A frame as read therefore has no text cell in
\* a column unless some text of that column is no number.
AsRead(df) ==
    \A j \in 1..Len(df.columns) :
        (\E r \in 1..Len(df.rows) : df.rows[r][j].t = "str")
            => \E r \in 1..Len(df.rows) :
                  df.rows[r][j].t = "str" /\ ToFloat(df.rows[r][j]).k = "err"

SheetOf(layout, keys) == [layout |-> layout, keys |-> keys, barcodes |-> <<>>]

\* template rows vary (keys and count), over a few fixed selections of sources
FixedSources ==
    { <<SheetOf(SourcePlain, <<IntVal(1, 100), IntVal(1, 200)>>)>>,
      <<SheetOf(SourcePlain, <<IntVal(1, 100)>>),
        SheetOf(SourceUpperCase, <<Key100Text, KeyA17>>)>>,
      <<SheetOf(SourceNoKey, <<NaN>>),
        SheetOf(SourcePlain, <<FloatVal(1, 100, <<0>>), IntVal(1, 100)>>)>>,
      <<SheetOf(SourcePlain, <<IntVal(1, 100), FloatVal(1, 100, <<0>>)>>),
        SheetOf(SourcePlain, <<IntVal(1, 100), IntVal(1, 200)>>)>>,
      <<SheetOf(SourcePlain, <<KeyA17, Key100Text>>)>> }

TemplateRowScenarios ==
    { [layout |-> l, keys |-> k, sheets |-> s] :
        l \in TemplateLayouts,
        k \in SeqsOf(KeySamples, 1, MaxTemplateRows),
        s \in FixedSources }

\* the rows of one source sheet vary (keys and count)
FewTemplateKeys ==
    { <<NaN>>, <<IntVal(1, 100)>>, <<FloatVal(1, 100, <<0>>)>>, <<KeyA17>>,
      <<Key100Text, KeyA17>> }

SourceRowScenarios ==
    { [layout |-> TemplatePlain, keys |-> k, sheets |-> <<SheetOf(l, ks)>>] :
        k \in FewTemplateKeys,
        l \in {SourcePlain, SourceUpperCase},
        ks \in SeqsOf(KeySamples, 1, MaxSourceRows) }

\* the selected source sheets vary (layouts, keys, count and order)
SheetPool ==
    { SheetOf(l, k) :
        l \in SourceLayouts,
        k \in { <<IntVal(1, 100)>>, <<Key100Text, KeyA17>> } }

SheetScenarios ==
    { [layout |-> l, keys |-> k, sheets |-> s] :
        l \in {TemplatePlain, TemplateMixedCase},
        k \in { <<NaN>>, <<IntVal(1, 100)>>, <<Key100Text, KeyA17>> },
        s \in SeqsOf(SheetPool, 0, MaxSourceSheets) }

\* the source barcode varies, in a column that also holds a text barcode
BarcodeScenarios ==
    { [layout |-> l, keys |-> <<IntVal(1, 100), IntVal(1, 200)>>,
       sheets |-> <<[layout |-> SourcePlain,
                     keys |-> <<IntVal(1, 100), IntVal(1, 200)>>,
                     barcodes |-> <<b, StrVal(BCABC123)>>]>>] :
        l \in {TemplatePlain, TemplateMixedCase}, b \in BarcodeSamples }

Scenarios ==
    TemplateRowScenarios \cup SourceRowScenarios \cup SheetScenarios
        \cup BarcodeScenarios

(***************************************************************************)
(* The run                                                                 *)
(***************************************************************************)
NoOutput == [written |-> FALSE, sheet |-> EmptyFrame]

Init ==
    \E sc \in Scenarios :
        /\ template_sheet = MkTemplate(sc.layout, sc.keys)
        /\ source_sheets = [p \in 1..Len(sc.sheets) |-> MkSheet(p, sc.sheets[p])]
        /\ AsRead(template_sheet)
        /\ \A p \in 1..Len(source_sheets) : AsRead(source_sheets[p])
        /\ pc = "read"
        /\ template_df = EmptyFrame
        /\ source_dfs = <<>>
        /\ combined_source = EmptyFrame
        /\ ppid_col_template = None
        /\ ppid_col_source = None
        /\ source_lookup = EmptyLookup
        /\ idx = 0
        /\ processed_count = 0
        /\ not_found_count = 0
        /\ output = NoOutput
        /\ error = ""

\* lines 40-49: the template sheet and every selected source sheet are read
ReadSheets ==
    /\ pc = "read"
    /\ template_df' = template_sheet
    /\ source_dfs' = source_sheets
    /\ pc' = "concat"
    /\ UNCHANGED <<template_sheet, source_sheets, combined_source,
                   ppid_col_template, ppid_col_source, source_lookup, idx,
                   processed_count, not_found_count, output, error>>

\* line 52
ConcatSources ==
    /\ pc = "concat"
    /\ source_dfs # <<>>
    /\ combined_source' = Concat(source_dfs)
    /\ pc' = "find"
    /\ UNCHANGED <<template_sheet, source_sheets, template_df, source_dfs,
                   ppid_col_template, ppid_col_source, source_lookup, idx,
                   processed_count, not_found_count, output, error>>

\* line 52 with no source sheet selected: pd.concat([]) raises ValueError,
\* caught at line 185
ConcatRaises ==
    /\ pc = "concat"
    /\ source_dfs = <<>>
    /\ error' = "Error processing file: No objects to concatenate"
    /\ pc' = "failed"
    /\ UNCHANGED <<template_sheet, source_sheets, template_df, source_dfs,
                   combined_source, ppid_col_template, ppid_col_source,
                   source_lookup, idx, processed_count, not_found_count, output>>

\* lines 73-85
FindKeyColumns ==
    /\ pc = "find"
    /\ ppid_col_template' = FindTemplateKeyColumn(template_df)
    /\ ppid_col_source' = FindSourceKeyColumn(combined_source)
    /\ pc' = "check"
    /\ UNCHANGED <<template_sheet, source_sheets, template_df, source_dfs,
                   combined_source, source_lookup, idx, processed_count,
                   not_found_count, output, error>>

\* lines 87-90: st.error, and the handler ends
KeyColumnMissing ==
    /\ pc = "check"
    /\ ppid_col_template = None \/ ppid_col_source = None
    /\ error' = IF ppid_col_template = None
                THEN "Could not find PPID column in template sheet!"
                ELSE "Could not find 'Pim Parent ID' column in source sheets!"
    /\ pc' = "failed"
    /\ UNCHANGED <<template_sheet, source_sheets, template_df, source_dfs,
                   combined_source, ppid_col_template, ppid_col_source,
                   source_lookup, idx, processed_count, not_found_count, output>>

\* lines 91-105
Deduplicate ==
    /\ pc = "check"
    /\ ppid_col_template # None
    /\ ppid_col_source # None
    /\ source_lookup' =
           SetIndex(DropDuplicates(combined_source, ppid_col_source), ppid_col_source)
    /\ processed_count' = 0
    /\ not_found_count' = 0
    /\ idx' = 1
    /\ pc' = "loop"
    /\ UNCHANGED <<template_sheet, source_sheets, template_df, source_dfs,
                   combined_source, ppid_col_template, ppid_col_source,
                   output, error>>

\* RowsLeft ending the loop one row early; C8_NoOutputOnFatalError tells the
\* two apart
RowsLeftButLast(i, df) == i < Len(df.rows)

\* for idx, row in template_df.iterrows(): is there a row left
RowsLeft(i, df) == i <= Len(df.rows)

\* lines 107-148: one pass of the template row loop; an exception raised in
\* it is caught at line 185
ProcessRow ==
    /\ pc = "loop"
    /\ RowsLeft(idx, template_df)
    /\ \E res \in {ProcessTemplateRow(template_df, idx, ppid_col_template, source_lookup)} :
           /\ template_df' = res.df
           /\ processed_count' =
                  IF res.kind = "processed" THEN processed_count + 1 ELSE processed_count
           /\ not_found_count' =
                  IF res.kind = "not_found" THEN not_found_count + 1 ELSE not_found_count
           /\ pc' = IF res.kind = "raised" THEN "failed" ELSE "loop"
           /\ idx' = IF res.kind = "raised" THEN idx ELSE idx + 1
           /\ error' = IF res.kind = "raised"
                       THEN "Error processing file: cannot convert float infinity to integer"
                       ELSE error
    /\ UNCHANGED <<template_sheet, source_sheets, source_dfs, combined_source,
                   ppid_col_template, ppid_col_source, source_lookup, output>>

\* lines 150-173: the loop is over; the template frame is written and offered
WriteOutput ==
    /\ pc = "loop"
    /\ ~RowsLeft(idx, template_df)
    /\ output' = [written |-> TRUE, sheet |-> ToExcel(template_df)]
    /\ pc' = "done"
    /\ UNCHANGED <<template_sheet, source_sheets, template_df, source_dfs,
                   combined_source, ppid_col_template, ppid_col_source,
                   source_lookup, idx, processed_count, not_found_count, error>>

Next ==
    \/ ReadSheets
    \/ ConcatSources
    \/ ConcatRaises
    \/ FindKeyColumns
    \/ KeyColumnMissing
    \/ Deduplicate
    \/ ProcessRow
    \/ WriteOutput

Spec == Init /\ [][Next]_vars

(***************************************************************************)
(* Vocabulary of the properties                                            *)
(***************************************************************************)
Done == pc = "done"

Result == output.sheet

TemplateRows == 1..Len(template_sheet.rows)

TemplateCols == 1..Len(template_sheet.columns)

Pairs == 1..Len(column_mapping)

SameIgnoringCase(a, b) == Lower(a) = Lower(b)

\* the first column of cols named name, letter case ignored; None if there is none
FirstNamed(cols, name) ==
    LET Test(c) == SameIgnoringCase(c, name) IN FirstColumn(cols, {j \in 1..Len(cols) : Test(cols[j])})

\* the template column that pair k fills, or None
DestColumn(k) == FirstNamed(template_sheet.columns, column_mapping[k][1])

\* the column of the source data that supplies pair k, or None: the first so
\* named column of the first selected sheet that has one
SheetsNaming(name) ==
    {p \in 1..Len(source_sheets) : FirstNamed(source_sheets[p].columns, name) # None}

SourceColumn(k) ==
    LET ps == SheetsNaming(column_mapping[k][2]) IN
    IF ps = {} THEN None
    ELSE FirstNamed(source_sheets[CHOOSE p \in ps : \A p2 \in ps : p <= p2].columns,
                    column_mapping[k][2])

IsBarcodePair(k) == Upper(column_mapping[k][1]) = Barcode

\* the key of template row r as uploaded
TemplateKey(r) == Cell(template_sheet, r, ppid_col_template)

\* the rows <<sheet, row>> of the selected source sheets whose key is k, for a
\* notion of equal keys and of a sheet's key column
AllSourceRows ==
    UNION { {<<p, q>> : q \in 1..Len(source_sheets[p].rows)} :
              p \in 1..Len(source_sheets) }

SourceRowsWithKey(k, SameKey(_, _), KeyColumnOf(_)) ==
    {o \in AllSourceRows :
        /\ KeyColumnOf(source_sheets[o[1]]) # None
        /\ SameKey(Cell(source_sheets[o[1]], o[2], KeyColumnOf(source_sheets[o[1]])), k)}

\* sheet order first, row order within a sheet
Earliest(rows) ==
    CHOOSE o \in rows :
        \A o2 \in rows : o[1] < o2[1] \/ (o[1] = o2[1] /\ o[2] <= o2[2])

\* the key column of the source data, as the run found it, in one sheet
FoundKeyColumn(sheet) ==
    IF HasCol(sheet.columns, ppid_col_source) THEN ppid_col_source ELSE None

\* what source row o holds in the source column of pair k: blank where o's
\* sheet has no column of exactly that label
SourceValue(o, k) ==
    IF HasCol(source_sheets[o[1]].columns, SourceColumn(k))
    THEN Cell(source_sheets[o[1]], o[2], SourceColumn(k))
    ELSE NaN

\* the integer part of a value that float() reads as a finite number; any
\* other value as it is
Truncated(v) ==
    IF IsNa(v) THEN v
    ELSE IF ToFloat(v).k = "num" THEN IntVal(ToFloat(v).sg, ToFloat(v).n)
    ELSE v

\* the pairs that write into template column j
PairsInto(j) ==
    {k \in Pairs : DestColumn(k) = template_sheet.columns[j] /\ SourceColumn(k) # None}

\* row r of frame df is filled from source row o and from nothing else: every
\* destination of a pair with both sides present holds o's value (the barcode
\* as an integer), every other cell is as uploaded
FilledFrom(df, r, o) ==
    \A j \in TemplateCols :
        IF PairsInto(j) = {}
        THEN df.rows[r][j] = template_sheet.rows[r][j]
        ELSE \A k \in PairsInto(j) :
                df.rows[r][j] = IF IsBarcodePair(k) THEN Truncated(SourceValue(o, k))
                                ELSE SourceValue(o, k)

Untouched(df, r) == df.rows[r] = template_sheet.rows[r]

IsDestination(col) == \E k \in Pairs : SameIgnoringCase(col, column_mapping[k][1])

(***************************************************************************)
(* C1: the emitted table has exactly the template's column labels, in the  *)
(* template's order and casing, and exactly the template's rows in their   *)
(* order: as many rows as the template has, each with a cell per column    *)
(* and with the uploaded value in every column that is no destination of   *)
(* the mapping, whatever the match rate and also with duplicate keys in    *)
(* the template.                                                           *)
(***************************************************************************)
C1_ResultHasTemplateShape ==
    Done =>
        /\ output.written
        /\ Result.columns = template_sheet.columns
        /\ Len(Result.rows) = Len(template_sheet.rows)
        /\ \A r \in TemplateRows :
              /\ Len(Result.rows[r]) = Len(template_sheet.columns)
              /\ \A j \in TemplateCols :
                    ~IsDestination(template_sheet.columns[j])
                        => Result.rows[r][j] = template_sheet.rows[r][j]

\* a written result for a template with two rows of one key, both matched,
\* while the source data has a column the template lacks
C1_Witness ==
    /\ Done
    /\ Len(template_sheet.rows) >= 2
    /\ ~IsNa(TemplateKey(1))
    /\ KeyEq(TemplateKey(1), TemplateKey(2))
    /\ processed_count >= 2
    /\ \E c \in 1..Len(combined_source.columns) :
          \A j \in TemplateCols :
              ~SameIgnoringCase(combined_source.columns[c], template_sheet.columns[j])

(***************************************************************************)
(* C2: first wins.  With the source rows taken in selected-sheet order     *)
(* and, within a sheet, in row order, a template row whose key occurs in   *)
(* source rows is filled from the earliest of them only: every mapped      *)
(* cell holds that row's value, and no cell of the result row holds a      *)
(* value of a later row with the same key.  Keys are the same when equal   *)
(* as Python values, under the key column the run found.                   *)
(***************************************************************************)
C2_FirstWins ==
    Done =>
        \A r \in TemplateRows :
            LET occ == SourceRowsWithKey(TemplateKey(r), KeyEq, FoundKeyColumn) IN
            (~IsNa(TemplateKey(r)) /\ occ # {}) =>
                /\ FilledFrom(Result, r, Earliest(occ))
                /\ \A o \in occ \ {Earliest(occ)} :
                      \A c \in 1..Len(source_sheets[o[1]].columns) :
                          \A j \in TemplateCols :
                              LET v == source_sheets[o[1]].rows[o[2]][c] IN
                              (~IsNa(v) /\ source_sheets[o[1]].columns[c] # ppid_col_source)
                                  => /\ Result.rows[r][j] # v
                                     /\ Result.rows[r][j] # Truncated(v)

\* a written result where one template key occurs twice in one source sheet
\* and again in another sheet
C2_Witness ==
    /\ Done
    /\ \E r \in TemplateRows :
          LET occ == SourceRowsWithKey(TemplateKey(r), KeyEq, FoundKeyColumn) IN
          /\ ~IsNa(TemplateKey(r))
          /\ \E o1, o2, o3 \in occ :
                o1[1] = o2[1] /\ o1[2] # o2[2] /\ o3[1] # o1[1]
          /\ \E j \in TemplateCols : PairsInto(j) # {}

(***************************************************************************)
(* The matched record                                                      *)
(***************************************************************************)
\* the records of the deduplicated source set whose key template row r matches
MatchedRecords(r) ==
    {m \in 1..Len(source_lookup.index) :
        ~IsNa(TemplateKey(r)) /\ KeyEq(source_lookup.index[m], TemplateKey(r))}

\* what record m holds in the source column of pair k
RecordValue(m, k) ==
    source_lookup.rows[m][ColPos(source_lookup.columns, SourceColumn(k))]

Reverse(seq) == [i \in 1..Len(seq) |-> seq[Len(seq) + 1 - i]]

AbsentKeyRows == {r \in TemplateRows : IsNa(TemplateKey(r))}

UnmatchedRows ==
    {r \in TemplateRows : ~IsNa(TemplateKey(r)) /\ MatchedRecords(r) = {}}

(***************************************************************************)
(* C5 as claimed: in a matched row every destination of a pair with both   *)
(* sides present equals the matched record's source value, for all 15      *)
(* pairs; every other cell is as uploaded.                                 *)
(***************************************************************************)
C5_EveryPairCopiesSourceValue ==
    Done =>
        \A r \in TemplateRows : \A m \in MatchedRecords(r) : \A j \in TemplateCols :
            IF PairsInto(j) = {}
            THEN Result.rows[r][j] = template_sheet.rows[r][j]
            ELSE \A k \in PairsInto(j) : KeyEq(Result.rows[r][j], RecordValue(m, k))

(***************************************************************************)
(* C5 amended: in a matched row, every destination of one of the 15 pairs  *)
(* whose destination is a template column and whose source is a column of  *)
(* the source data (names compared without regard to case, the first such  *)
(* column taken) equals the matched record's value in that source column,  *)
(* except that BARCODE receives the value converted to an integer; a pair  *)
(* with a side absent changes nothing; every other cell, the key included, *)
(* is as uploaded; and applying the pairs in the reverse order gives the   *)
(* same row.                                                               *)
(***************************************************************************)
C5_MappedOverwrite ==
    Done =>
        /\ Len(column_mapping) = 15
        /\ \A r \in TemplateRows : \A m \in MatchedRecords(r) :
              /\ \A j \in TemplateCols :
                    IF PairsInto(j) = {}
                    THEN Result.rows[r][j] = template_sheet.rows[r][j]
                    ELSE \A k \in PairsInto(j) :
                            Result.rows[r][j] =
                                IF IsBarcodePair(k) THEN Truncated(RecordValue(m, k))
                                ELSE RecordValue(m, k)
              /\ Result.rows[r] =
                     ApplyPairs(template_sheet, r, source_lookup, m,
                                Reverse(MappingOrder)).df.rows[r]

\* a written result with a matched row in which the barcode was converted,
\* another pair copied its value, and a destination column (BRAND) kept its
\* value because the source data has no column for it
C5_Witness ==
    /\ Done
    /\ \E r \in TemplateRows : \E m \in MatchedRecords(r) :
          /\ \E j \in TemplateCols : \E k \in PairsInto(j) :
                IsBarcodePair(k) /\ ~KeyEq(Truncated(RecordValue(m, k)), RecordValue(m, k))
          /\ \E j \in TemplateCols : \E k \in PairsInto(j) :
                ~IsBarcodePair(k) /\ Result.rows[r][j] # template_sheet.rows[r][j]
          /\ \E j \in TemplateCols :
                IsDestination(template_sheet.columns[j]) /\ PairsInto(j) = {}

(***************************************************************************)
(* C6: a template row whose key is present and has no record in the        *)
(* deduplicated source set keeps every cell it was uploaded with, at every *)
(* point of the row loop (no other row's processing alters it) and in the  *)
(* result, and the run counts exactly these rows as not found.             *)
(***************************************************************************)
C6_UnmatchedPassthrough ==
    /\ pc \in {"loop", "done"} => \A r \in UnmatchedRows : Untouched(template_df, r)
    /\ Done => /\ \A r \in UnmatchedRows : Untouched(Result, r)
               /\ not_found_count = Cardinality(UnmatchedRows)

\* a written result whose first row was matched and filled and whose second
\* row was not found
C6_Witness ==
    /\ Done
    /\ 2 \in UnmatchedRows
    /\ MatchedRecords(1) # {}
    /\ ~Untouched(Result, 1)
    /\ not_found_count >= 1

(***************************************************************************)
(* C7: a template row whose key cell is empty is never matched, also when  *)
(* the source data holds rows with an empty key (rows of a sheet without   *)
(* the key column among them): every cell of the row is as uploaded, in    *)
(* the loop and in the result, and the row is counted neither as processed *)
(* nor as not found.                                                       *)
(***************************************************************************)
C7_AbsentKeyPassthrough ==
    /\ pc \in {"loop", "done"} => \A r \in AbsentKeyRows : Untouched(template_df, r)
    /\ Done => /\ \A r \in AbsentKeyRows : Untouched(Result, r)
               /\ processed_count + not_found_count
                      = Cardinality(TemplateRows \ AbsentKeyRows)

\* a written result for a template row with an empty key, while the
\* deduplicated source set holds a record with an empty key that comes from
\* a sheet without the key column, and a pair has both sides present
C7_Witness ==
    /\ Done
    /\ AbsentKeyRows # {}
    /\ \E m \in 1..Len(source_lookup.index) : IsNa(source_lookup.index[m])
    /\ \E p \in 1..Len(source_sheets) : FoundKeyColumn(source_sheets[p]) = None
    /\ \E j \in TemplateCols : PairsInto(j) # {}

(***************************************************************************)
(* C8: the output is written only when the loop has passed every template  *)
(* row; a run whose template has no key column, or whose selected source   *)
(* sheets have no key column among them (none selected included), never    *)
(* enters the row loop, never writes the output, and ends with an error    *)
(* reported.                                                               *)
(***************************************************************************)
FatalInput ==
    \/ FindTemplateKeyColumn(template_sheet) = None
    \/ source_sheets = <<>>
    \/ \A p \in 1..Len(source_sheets) : FindSourceKeyColumn(source_sheets[p]) = None

C8_NoOutputOnFatalError ==
    /\ output.written =>
          /\ Done
          /\ idx = Len(template_sheet.rows) + 1
          /\ processed_count + not_found_count + Cardinality(AbsentKeyRows)
                 = Len(template_sheet.rows)
    /\ Done => output.written
    /\ FatalInput =>
          /\ ~output.written
          /\ pc \notin {"loop", "done"}
          /\ (~ENABLED Next) => (pc = "failed" /\ error # "")

\* a run that ended with the error for source sheets without the key column
C8_Witness ==
    /\ pc = "failed"
    /\ error # ""
    /\ FatalInput
    /\ source_sheets # <<>>
    /\ FindTemplateKeyColumn(template_sheet) # None
    /\ ~output.written

(***************************************************************************)
(* Text forms, for the cleaning the claim describes                        *)
(***************************************************************************)
RECURSIVE DigitsOf(_)
DigitsOf(n) ==
    IF n < 10 THEN <<DigitChars[n + 1]>>
    ELSE DigitsOf(n \div 10) \o <<DigitChars[(n % 10) + 1]>>

\* str(value)
TextOf(v) ==
    CASE v.t = "str" -> v.s
      [] v.t = "int" -> (IF v.sg < 0 THEN <<"-">> ELSE <<>>) \o DigitsOf(v.n)
      [] v.t = "float" ->
            (IF v.sg < 0 THEN <<"-">> ELSE <<>>) \o DigitsOf(v.n) \o <<".">>
                \o (IF v.f = <<>> THEN <<"0">>
                    ELSE [i \in 1..Len(v.f) |-> DigitChars[v.f[i] + 1]])
      [] OTHER -> <<"n","a","n">>

RECURSIVE DropTrailingZeroChars(_)
DropTrailingZeroChars(s) ==
    IF s # <<>> /\ s[Len(s)] = "0"
    THEN DropTrailingZeroChars(SubSeq(s, 1, Len(s) - 1))
    ELSE s

\* s without a final "." followed by one or more "0"
WithoutDecimalArtifact(s) ==
    LET z == DropTrailingZeroChars(s) IN
    IF Len(z) < Len(s) /\ z # <<>> /\ z[Len(z)] = "."
    THEN SubSeq(z, 1, Len(z) - 1)
    ELSE s

RaisedInLoop == pc = "failed" /\ idx >= 1

(***************************************************************************)
(* C10 as claimed: in a matched row BARCODE holds the source barcode with  *)
(* a trailing ".0" artifact removed and otherwise as it is, no barcode     *)
(* aborts the run, and no other column is cleaned.                         *)
(***************************************************************************)
C10_OnlyDecimalArtifactRemoved ==
    /\ ~RaisedInLoop
    /\ Done =>
          \A r \in TemplateRows : \A m \in MatchedRecords(r) :
              \A j \in TemplateCols : \A k \in PairsInto(j) :
                  IF IsBarcodePair(k) /\ ~IsNa(RecordValue(m, k))
                  THEN TextOf(Result.rows[r][j])
                           = WithoutDecimalArtifact(TextOf(RecordValue(m, k)))
                  ELSE Result.rows[r][j] = RecordValue(m, k)

(***************************************************************************)
(* C10 amended: in a matched row BARCODE holds the source barcode          *)
(* converted to an integer when float() reads it as a finite number, the   *)
(* fraction cut off ("1234567890.0" gives 1234567890 and "555.0" gives     *)
(* 555, but also "555.5" gives 555 and "0555" gives 555); a barcode        *)
(* float() rejects, such as "ABC123", is written as it is and the run goes *)
(* on; an empty barcode is written empty; the run aborts in the row loop   *)
(* only on a barcode text that float() reads as an infinity; the value of  *)
(* every other pair is written as it is.                                   *)
(***************************************************************************)
BarcodeExamples ==
    { <<StrVal(BC555), IntVal(1, 555)>>,
      <<StrVal(BC1234567890), IntVal(1, 1234567890)>>,
      <<StrVal(BCABC123), StrVal(BCABC123)>>,
      <<StrVal(BC0555), IntVal(1, 555)>>,
      <<StrVal(BC5555), IntVal(1, 555)>>,
      <<FloatVal(1, 12, <<5>>), IntVal(1, 12)>>,
      <<FloatVal(1, 777, <<0>>), IntVal(1, 777)>>,
      <<NaN, NaN>> }

C10_BarcodeAsInteger ==
    /\ Done =>
          \A r \in TemplateRows : \A m \in MatchedRecords(r) :
              \A j \in TemplateCols : \A k \in PairsInto(j) :
                  IF IsBarcodePair(k)
                  THEN /\ Result.rows[r][j] = Truncated(RecordValue(m, k))
                       /\ \A e \in BarcodeExamples :
                             RecordValue(m, k) = e[1] => Result.rows[r][j] = e[2]
                  ELSE Result.rows[r][j] = RecordValue(m, k)
    /\ RaisedInLoop =>
          \E m \in MatchedRecords(idx) : \E k \in Pairs :
              /\ IsBarcodePair(k)
              /\ DestColumn(k) # None
              /\ SourceColumn(k) # None
              /\ RecordValue(m, k).t = "str"
              /\ ToFloat(RecordValue(m, k)).k = "inf"

\* a written result in which the barcode text "555.5" became the integer 555
C10_Witness ==
    /\ Done
    /\ \E r \in TemplateRows : \E m \in MatchedRecords(r) :
          \E j \in TemplateCols : \E k \in PairsInto(j) :
              /\ IsBarcodePair(k)
              /\ RecordValue(m, k) = StrVal(BC5555)
              /\ Result.rows[r][j] = IntVal(1, 555)

(***************************************************************************)
(* C3 as claimed: the key forms "100", 100 and 100.0 denote one key.  With *)
(* keys taken as equal when their normal forms (the text of the value,     *)
(* without a final ".0", without surrounding blanks) are equal, a template *)
(* row whose key occurs in source rows is filled from the earliest of      *)
(* them.                                                                   *)
(***************************************************************************)
NormalizeKey(v) == Strip(WithoutDecimalArtifact(TextOf(v)))

SameNormalizedKey(a, b) ==
    ~IsNa(a) /\ ~IsNa(b) /\ NormalizeKey(a) = NormalizeKey(b)

C3_KeyFormsAreOneKey ==
    Done =>
        \A r \in TemplateRows :
            LET occ == SourceRowsWithKey(TemplateKey(r), SameNormalizedKey,
                                         FoundKeyColumn)
            IN  (~IsNa(TemplateKey(r)) /\ occ # {})
                    => FilledFrom(Result, r, Earliest(occ))

(***************************************************************************)
(* C4 as claimed: header spelling never causes a mismatch.  With a sheet's *)
(* key column and its mapped columns found by normal form (lower case,     *)
(* line breaks as blanks, no surrounding blanks), a template row whose key *)
(* occurs in source rows is filled from the earliest of them, whichever    *)
(* spelling its sheet uses.                                                *)
(***************************************************************************)
NormalizeHeader(h) ==
    Strip([i \in 1..Len(h) |-> IF h[i] \in {"\n", "\r"} THEN " " ELSE CharLower(h[i])])

KeyAlias == <<"p","i","m"," ","p","a","r","e","n","t"," ","i","d">>

KeyColumnByHeader(sheet) ==
    LET Test(c) == NormalizeHeader(c) = KeyAlias IN FirstColumn(sheet.columns, {j \in 1..Len(sheet.columns) : Test(sheet.columns[j])})

ColumnByHeader(sheet, name) ==
    LET Test(c) == NormalizeHeader(c) = NormalizeHeader(name)
    IN  FirstColumn(sheet.columns, {j \in 1..Len(sheet.columns) : Test(sheet.columns[j])})

C4_HeaderSpellingNeverMismatches ==
    Done =>
        \A r \in TemplateRows :
            LET occ == SourceRowsWithKey(TemplateKey(r), KeyEq, KeyColumnByHeader)
                o   == Earliest(occ)
            IN  (~IsNa(TemplateKey(r)) /\ occ # {}) =>
                    \A k \in Pairs :
                        LET sc == ColumnByHeader(source_sheets[o[1]], column_mapping[k][2])
                        IN  (DestColumn(k) # None /\ sc # None) =>
                                KeyEq(Cell(Result, r, DestColumn(k)),
                                      IF IsBarcodePair(k)
                                      THEN Truncated(Cell(source_sheets[o[1]], o[2], sc))
                                      ELSE Cell(source_sheets[o[1]], o[2], sc))

(***************************************************************************)
(* C9 as claimed: a selected source sheet without the key column, beside   *)
(* one that has it, does not stop the run, and the result is the one the   *)
(* run gives when that sheet is not selected.                              *)
(***************************************************************************)
RECURSIVE RowLoop(_, _, _, _)
RowLoop(df, r, key_col, lookup) ==
    IF r > Len(df.rows) THEN df
    ELSE RowLoop(ProcessTemplateRow(df, r, key_col, lookup).df, r + 1, key_col, lookup)

\* the table a run over the template and the given source sheets writes
ResultOf(template, sheets) ==
    LET combined == Concat(sheets)
        key_col  == FindSourceKeyColumn(combined)
    IN  ToExcel(RowLoop(template, 1, FindTemplateKeyColumn(template),
                        SetIndex(DropDuplicates(combined, key_col), key_col)))

HasKeyColumn(sheet) == FindSourceKeyColumn(sheet) # None

C9_KeylessSheetChangesNothing ==
    (/\ \E p \in 1..Len(source_sheets) : ~HasKeyColumn(source_sheets[p])
     /\ \E p \in 1..Len(source_sheets) : HasKeyColumn(source_sheets[p])
     /\ FindTemplateKeyColumn(template_sheet) # None)
        => /\ pc # "failed"
           /\ Done => Result = ResultOf(template_sheet,
                                        SelectSeq(source_sheets, HasKeyColumn))

====
